---------------------------- MODULE Spec2Model ----------------------------
(***************************************************************************)
(* TradeLogger (src/tradeLogger.py): a trade journal over one SQLite table *)
(* "trades", a process-wide settings dictionary, and the P&L calculator    *)
(* calculate_pnl.                                                          *)
(*                                                                         *)
(* Numbers.  Python floats are modelled as exact rationals [n, d] in       *)
(* lowest terms (d > 0), so the arithmetic of calculate_pnl is the         *)
(* arithmetic of the reals: binary rounding error is outside the model.    *)
(* Text.  A Python str is a sequence of one-character strings, so that     *)
(* float(), str.lower() and str.upper() are computed character by          *)
(* character.                                                              *)
(***************************************************************************)
EXTENDS Integers, Sequences, FiniteSets, TLC

VARIABLES
    tableExists,      \* trading_journal.db holds the table "trades"
    trades,           \* the table: rowid -> row (a function on the ids present)
    settings,         \* the global settings dictionary
    history_tree,     \* the Treeview rows of the Trade History tab, top first
    dialog,           \* what the last handler showed in a messagebox
    event,            \* the last handler run and how it ended
    assigned,         \* history: every rowid an INSERT has ever been given
    instrument_type,  \* text of the Instrument Type combobox
    calc_fields,      \* which field set update_calc_fields built last
    result_label,     \* the result label of the Profit Calculator tab
    pnl_call          \* the last direct call of calculate_pnl (SpecCalc)

vars == <<tableExists, trades, settings, history_tree, dialog, event, assigned,
          instrument_type, calc_fields, result_label, pnl_call>>

ledgerVars == <<tableExists, trades, history_tree, assigned>>
calcTabVars == <<instrument_type, calc_fields, result_label>>

-----------------------------------------------------------------------------
(* Exact rational arithmetic standing for Python's float operators.        *)

Abs(x) == IF x < 0 THEN -x ELSE x

RECURSIVE GCD(_, _)
GCD(a, b) == IF b = 0 THEN a ELSE GCD(b, a % b)

\* The rational n/d (d > 0) in lowest terms.
Rat(n, d) ==
    LET g == GCD(Abs(n), d)
    IN  [n |-> n \div g, d |-> d \div g]

IntR(i) == [n |-> i, d |-> 1]

RSub(a, b) == Rat(a.n * b.d - b.n * a.d, a.d * b.d)

RMul(a, b) == Rat(a.n * b.n, a.d * b.d)

-----------------------------------------------------------------------------
(* Text helpers: str.lower(), str.upper(), str.strip, float().             *)

UpperLetters ==
    <<"A","B","C","D","E","F","G","H","I","J","K","L","M",
      "N","O","P","Q","R","S","T","U","V","W","X","Y","Z">>

LowerLetters ==
    <<"a","b","c","d","e","f","g","h","i","j","k","l","m",
      "n","o","p","q","r","s","t","u","v","w","x","y","z">>

IndexIn(letters, c) ==
    IF \E i \in 1..Len(letters) : letters[i] = c
    THEN CHOOSE i \in 1..Len(letters) : letters[i] = c
    ELSE 0

LowerChar(c) ==
    LET i == IndexIn(UpperLetters, c)
    IN  IF i = 0 THEN c ELSE LowerLetters[i]

UpperChar(c) ==
    LET i == IndexIn(LowerLetters, c)
    IN  IF i = 0 THEN c ELSE UpperLetters[i]

\* Mutant of Lower: the text as it is, so a comparison is case-sensitive.
Lower_Identity(text) == text

\* str.lower()
Lower(text) == [i \in 1..Len(text) |-> LowerChar(text[i])]

\* Mutant of Upper: the text as it is, so the lookup is case-sensitive.
Upper_Identity(text) == text

\* str.upper()
Upper(text) == [i \in 1..Len(text) |-> UpperChar(text[i])]

Digits == <<"0","1","2","3","4","5","6","7","8","9">>

IsDigit(c) == IndexIn(Digits, c) # 0

DigitVal(c) == IndexIn(Digits, c) - 1

RECURSIVE StripLeft(_)
StripLeft(text) ==
    IF text # <<>> /\ Head(text) = " " THEN StripLeft(Tail(text)) ELSE text

RECURSIVE StripRight(_)
StripRight(text) ==
    IF text # <<>> /\ text[Len(text)] = " "
    THEN StripRight(SubSeq(text, 1, Len(text) - 1))
    ELSE text

RECURSIVE Pow10(_)
Pow10(k) == IF k = 0 THEN 1 ELSE 10 * Pow10(k - 1)

\* The integer a string of decimal digits denotes (0 for the empty string).
RECURSIVE DigitsVal(_)
DigitsVal(ds) ==
    IF ds = <<>> THEN 0
    ELSE 10 * DigitsVal(SubSeq(ds, 1, Len(ds) - 1)) + DigitVal(ds[Len(ds)])

\* float(text) on decimal literals: surrounding blanks are stripped, then an
\* optional sign, digits, and at most one point with a digit on either side
\* of it.  Every other text over the alphabet used here (letters, blanks in
\* the middle, the empty text, a lone point or sign) raises ValueError:
\* ok = FALSE.  Exponents, underscores, "inf" and "nan" are not in the
\* alphabet of the inputs.
ParseFloat(text) ==
    LET s      == StripRight(StripLeft(text))
        signed == s # <<>> /\ Head(s) \in {"-", "+"}
        body   == IF signed THEN Tail(s) ELSE s
        points == {i \in 1..Len(body) : body[i] = "."}
        point  == IF points = {} THEN Len(body) + 1
                  ELSE CHOOSE i \in points : TRUE
        whole  == SubSeq(body, 1, point - 1)
        frac   == SubSeq(body, point + 1, Len(body))
        wellformed ==
            /\ Cardinality(points) <= 1
            /\ Len(whole) + Len(frac) >= 1
            /\ \A i \in 1..Len(whole) : IsDigit(whole[i])
            /\ \A i \in 1..Len(frac) : IsDigit(frac[i])
        mag    == Rat(DigitsVal(whole \o frac), Pow10(Len(frac)))
    IN  IF ~wellformed THEN [ok |-> FALSE]
        ELSE [ok |-> TRUE,
              val |-> IF signed /\ Head(s) = "-"
                      THEN Rat(-mag.n, mag.d) ELSE mag]

-----------------------------------------------------------------------------
(* The P&L calculator.                                                     *)

long == <<"l","o","n","g">>

\* Mutant of calculate_pnl: the commission is subtracted from the long gross
\* and the short result is that net with its sign changed.
calculate_pnl_NegatedShort(entry, exit, size, direction, commission, multiplier) ==
    LET net == RSub(RMul(RMul(RSub(exit, entry), size), multiplier),
                    RMul(commission, size))
    IN  IF Lower(direction) = long THEN net ELSE Rat(-net.n, net.d)

calculate_pnl(entry, exit, size, direction, commission, multiplier) ==
    LET gross == IF Lower(direction) = long
                 THEN RMul(RMul(RSub(exit, entry), size), multiplier)
                 ELSE RMul(RMul(RSub(entry, exit), size), multiplier)
    IN  RSub(gross, RMul(commission, size))


\* f"{x:.2f}": the value the two-decimal text denotes.  The text is the
\* nearest hundredth; when x lies exactly between two hundredths the float's
\* binary expansion decides, so either neighbour can be shown.
Format2(x) ==
    LET num == x.n * 100
        q   == num \div x.d
        rem == num % x.d
    IN  IF 2 * rem < x.d THEN {Rat(q, 100)}
        ELSE IF 2 * rem > x.d THEN {Rat(q + 1, 100)}
        ELSE {Rat(q, 100), Rat(q + 1, 100)}

\* str(i) of a positive integer (the Treeview keeps item ids as strings).
RECURSIVE IntToText(_)
IntToText(i) ==
    IF i < 10 THEN <<Digits[i + 1]>>
    ELSE IntToText(i \div 10) \o <<Digits[(i % 10) + 1]>>

-----------------------------------------------------------------------------
(* Bounds and inputs of the ledger.                                        *)

MaxRows == 2    \* rows the table holds at most
MaxId == 3      \* largest rowid an INSERT is allowed to reach

EmptyText == <<>>

\* The form fields of the Trade Tracker tab.
fields ==
    <<"Date", "Time", "Instrument", "Session", "Account Size", "Setup Name",
      "Entry Price", "Exit Price", "Stop Loss", "Position Size",
      "Direction (Long/Short)", "Context", "Bias", "Duration",
      "Mental State Pre", "Mental State During", "Execution Quality",
      "Distractions">>

FieldSet == {fields[i] : i \in 1..Len(fields)}

EntryTexts == {<<"1","0","0">>, <<"a","b","c">>}
ExitTexts == {<<" ","9","0",".","5"," ">>, EmptyText}
SizeTexts == {<<"1","0">>, <<"1","0","x">>}
DirectionTexts == {<<"L","o","n","g">>, <<"s","h","o","r","t">>}
CommissionTexts == {<<"1">>, <<"0",".","3","5">>, <<"f","r","e","e">>}

\* What the user has typed into the Trade Tracker form when Save is pressed.
TradeForms ==
    { [f \in FieldSet |->
         CASE f = "Entry Price" -> e
           [] f = "Exit Price" -> x
           [] f = "Position Size" -> s
           [] f = "Direction (Long/Short)" -> d
           [] f = "Date" -> <<"2","0","2","4">>
           [] f = "Instrument" -> <<"E","S","1">>
           [] f = "Stop Loss" -> <<"9","5">>
           [] OTHER -> EmptyText] :
      e \in EntryTexts, x \in ExitTexts, s \in SizeTexts, d \in DirectionTexts }

-----------------------------------------------------------------------------
(* The database.                                                           *)

NoRows == [i \in {} |-> TRUE]

Max(S) == CHOOSE m \in S : \A k \in S : k <= m

\* Mutant of CreateTableIfNotExists: the table is created anew at each start.
CreateTable_Recreate(exists, rows) == NoRows

\* CREATE TABLE IF NOT EXISTS trades (...): the rows of the table afterwards.
CreateTableIfNotExists(exists, rows) == IF exists THEN rows ELSE NoRows

\* Mutant of NextRowid: the smallest rowid that is free.
NextRowid_FirstFree(rows) ==
    CHOOSE id \in 1..(Cardinality(DOMAIN rows) + 1) : id \notin DOMAIN rows

\* The rowid SQLite gives a row inserted into an INTEGER PRIMARY KEY table
\* declared without AUTOINCREMENT: one more than the largest rowid present.
NextRowid(rows) == IF DOMAIN rows = {} THEN 1 ELSE Max(DOMAIN rows) + 1

\* A value bound as TEXT to a column of REAL affinity is stored as a number
\* when it reads as one and as the text otherwise.
RealAffinity(text) ==
    LET p == ParseFloat(text)
    IN  IF p.ok THEN [type |-> "real", v |-> p.val]
        ELSE [type |-> "text", v |-> text]

\* A TEXT value compared with the INTEGER PRIMARY KEY is converted to the
\* integer it reads as; 0 (no rowid) when it reads as none.
IntegerAffinity(text) ==
    LET p == ParseFloat(text)
    IN  IF p.ok /\ p.val.d = 1 THEN p.val.n ELSE 0

\* Mutant of TradeRow: the default rate is stored as the row's commission.
TradeRow_DefaultCommission(data, entry, exit, size, direction, pnl_net, commission) ==
    [date |-> data["Date"], time |-> data["Time"],
     instrument |-> data["Instrument"], session |-> data["Session"],
     account_size |-> RealAffinity(data["Account Size"]),
     setup_name |-> data["Setup Name"],
     entry_price |-> entry, exit_price |-> exit,
     stop_loss |-> RealAffinity(data["Stop Loss"]),
     position_size |-> size, direction |-> direction,
     pnl_net |-> pnl_net, commission |-> Rat(35, 100),
     context |-> data["Context"], bias |-> data["Bias"],
     duration |-> data["Duration"],
     mental_state_pre |-> data["Mental State Pre"],
     mental_state_during |-> data["Mental State During"],
     execution_quality |-> data["Execution Quality"],
     distractions |-> data["Distractions"]]

\* The row save_trade's INSERT builds.
TradeRow(data, entry, exit, size, direction, pnl_net, commission) ==
    [date |-> data["Date"], time |-> data["Time"],
     instrument |-> data["Instrument"], session |-> data["Session"],
     account_size |-> RealAffinity(data["Account Size"]),
     setup_name |-> data["Setup Name"],
     entry_price |-> entry, exit_price |-> exit,
     stop_loss |-> RealAffinity(data["Stop Loss"]),
     position_size |-> size, direction |-> direction,
     pnl_net |-> pnl_net, commission |-> commission,
     context |-> data["Context"], bias |-> data["Bias"],
     duration |-> data["Duration"],
     mental_state_pre |-> data["Mental State Pre"],
     mental_state_during |-> data["Mental State During"],
     execution_quality |-> data["Execution Quality"],
     distractions |-> data["Distractions"]]

SqlInsert(rows, row) ==
    LET id == NextRowid(rows)
    IN  [i \in DOMAIN rows \cup {id} |-> IF i = id THEN row ELSE rows[i]]

\* Mutant of SqlDelete: every row up to the key is deleted (WHERE id<=?).
SqlDelete_UpTo(rows, key) ==
    [i \in {j \in DOMAIN rows : j > IntegerAffinity(key)} |-> rows[i]]

\* DELETE FROM trades WHERE id=?
SqlDelete(rows, key) ==
    [i \in DOMAIN rows \ {IntegerAffinity(key)} |-> rows[i]]

\* Mutant of OrderByIdDesc: ascending order (ORDER BY id).
RECURSIVE OrderByIdAsc(_)
OrderByIdAsc(ids) ==
    IF ids = {} THEN <<>>
    ELSE LET m == Max(ids) IN OrderByIdAsc(ids \ {m}) \o <<m>>

RECURSIVE OrderByIdDesc(_)
OrderByIdDesc(ids) ==
    IF ids = {} THEN <<>>
    ELSE LET m == Max(ids) IN <<m>> \o OrderByIdDesc(ids \ {m})

\* SELECT id, date, instrument, pnl_net, commission FROM trades ORDER BY id
\* DESC, each row inserted at the end of the emptied Treeview under iid = id.
TreeRows(rows) ==
    LET order == OrderByIdDesc(DOMAIN rows)
    IN  [k \in 1..Len(order) |->
           [iid |-> IntToText(order[k]),
            values |-> <<rows[order[k]].date, rows[order[k]].instrument,
                         rows[order[k]].pnl_net, rows[order[k]].commission>>]]

\* history_tree.selection(): the selected item ids, in the order of the tree.
RECURSIVE Selections(_)
Selections(tree) ==
    IF tree = <<>> THEN {<<>>}
    ELSE LET rest == Selections(Tail(tree))
         IN  rest \cup {<<Head(tree).iid>> \o s : s \in rest}

-----------------------------------------------------------------------------
(* State at start-up.                                                      *)

DefaultSettings ==
    [commission_per_contract |-> Rat(35, 100), text_size |-> 12,
     dark_mode |-> FALSE, screenshot_folder |-> EmptyText]

NoDialog == [kind |-> "none"]
NoLabel == [kind |-> "empty"]
NoCall == [called |-> FALSE]

\* The last handler: the exception raised in it ("none" when none was),
\* whether the handler caught it, and the rowid an INSERT of it was given.
Ran(op) == [op |-> op, exc |-> "none", caught |-> FALSE, rowid |-> 0]
Raised(op, exc, caught) ==
    [op |-> op, exc |-> exc, caught |-> caught, rowid |-> 0]

Init ==
    /\ tableExists = TRUE
    /\ trades = CreateTableIfNotExists(FALSE, NoRows)
    /\ settings = DefaultSettings
    /\ history_tree = TreeRows(trades)
    /\ dialog = NoDialog
    /\ event = Ran("startup")
    /\ assigned = {}
    /\ instrument_type = ""
    /\ calc_fields = "none"
    /\ result_label = NoLabel
    /\ pnl_call = NoCall

-----------------------------------------------------------------------------
(* Handlers of the Trade Tracker, Trade History and Settings tabs.         *)

\* Save Trade.  A float() that fails raises ValueError out of the handler;
\* Tk reports it on stderr and the main loop goes on; nothing is shown.
save_trade(data) ==
    LET entry == ParseFloat(data["Entry Price"])
        exit  == ParseFloat(data["Exit Price"])
        size  == ParseFloat(data["Position Size"])
        direction == data["Direction (Long/Short)"]
        commission == settings.commission_per_contract
    IN  IF ~(entry.ok /\ exit.ok /\ size.ok)
        THEN /\ event' = Raised("save_trade", "ValueError", FALSE)
             /\ dialog' = NoDialog
             /\ UNCHANGED <<ledgerVars, settings, calcTabVars, pnl_call>>
        ELSE LET pnl_net == calculate_pnl(entry.val, exit.val, size.val,
                                          direction, commission, IntR(1))
                 row == TradeRow(data, entry.val, exit.val, size.val,
                                 direction, pnl_net, commission)
             IN  /\ Cardinality(DOMAIN trades) < MaxRows
                 /\ NextRowid(trades) <= MaxId
                 /\ trades' = SqlInsert(trades, row)
                 /\ assigned' = assigned \cup {NextRowid(trades)}
                 /\ event' = [op |-> "save_trade", exc |-> "none",
                              caught |-> FALSE,
                              rowid |-> NextRowid(trades)]
                 /\ \E shown \in Format2(pnl_net) :
                        dialog' = [kind |-> "info", title |-> "Saved",
                                   pnl |-> shown]
                 /\ UNCHANGED <<tableExists, history_tree, settings,
                                calcTabVars, pnl_call>>

\* Refresh.
load_history ==
    /\ history_tree' = TreeRows(trades)
    /\ event' = Ran("load_history")
    /\ dialog' = NoDialog
    /\ UNCHANGED <<tableExists, trades, assigned, settings, calcTabVars,
                   pnl_call>>

\* Delete Selected: deletes the first selected row, then reloads the tree.
delete_trade(selected) ==
    /\ event' = [op |-> "delete_trade", exc |-> "none", caught |-> FALSE,
                 rowid |-> 0, selected |-> selected]
    /\ dialog' = NoDialog
    /\ IF selected = <<>>
       THEN UNCHANGED <<trades, history_tree>>
       ELSE /\ trades' = SqlDelete(trades, selected[1])
            /\ history_tree' = TreeRows(trades')
    /\ UNCHANGED <<tableExists, assigned, settings, calcTabVars, pnl_call>>

\* Mutant of save_settings: a new rate is also written to the rows saved
\* before and their net P&L is computed again.
save_settings_Recompute(text) ==
    LET p == ParseFloat(text)
        redo(row) ==
            [row EXCEPT !.commission = p.val,
                        !.pnl_net = calculate_pnl(row.entry_price,
                                        row.exit_price, row.position_size,
                                        row.direction, p.val, IntR(1))]
    IN  /\ IF p.ok
           THEN /\ settings' =
                      [settings EXCEPT !.commission_per_contract = p.val]
                /\ trades' = [id \in DOMAIN trades |-> redo(trades[id])]
                /\ event' = Ran("save_settings")
                /\ dialog' = [kind |-> "info", title |-> "Saved"]
           ELSE /\ settings' = settings
                /\ trades' = trades
                /\ event' = Raised("save_settings", "ValueError", TRUE)
                /\ dialog' = [kind |-> "error", title |-> "Error"]
        /\ UNCHANGED <<tableExists, history_tree, assigned, calcTabVars,
                       pnl_call>>

\* Save Settings.
save_settings(text) ==
    LET p == ParseFloat(text)
    IN  /\ IF p.ok
           THEN /\ settings' =
                      [settings EXCEPT !.commission_per_contract = p.val]
                /\ event' = Ran("save_settings")
                /\ dialog' = [kind |-> "info", title |-> "Saved"]
           ELSE /\ settings' = settings
                /\ event' = Raised("save_settings", "ValueError", TRUE)
                /\ dialog' = [kind |-> "error", title |-> "Error"]
        /\ UNCHANGED <<ledgerVars, calcTabVars, pnl_call>>

\* The program is run again on the same trading_journal.db.
Restart ==
    /\ trades' = CreateTableIfNotExists(tableExists, trades)
    /\ tableExists' = TRUE
    /\ settings' = DefaultSettings
    /\ history_tree' = TreeRows(trades')
    /\ dialog' = NoDialog
    /\ event' = Ran("startup")
    /\ instrument_type' = ""
    /\ calc_fields' = "none"
    /\ result_label' = NoLabel
    /\ UNCHANGED <<assigned, pnl_call>>

Next ==
    \/ \E data \in TradeForms : save_trade(data)
    \/ load_history
    \/ \E selected \in Selections(history_tree) : delete_trade(selected)
    \/ \E text \in CommissionTexts : save_settings(text)
    \/ Restart

Spec == Init /\ [][Next]_vars

-----------------------------------------------------------------------------
(* The Profit Calculator tab.                                              *)

StocksFields == {"Position Size", "Entry Price", "Exit Price"}
ForexFields == {"Currency Pair", "Direction (Long/Short)",
                "Trade Size (lots)", "Entry Price", "Exit Price"}
FuturesFields == {"Instrument", "Direction (Long/Short)", "Contracts",
                  "Entry Price", "Exit Price"}

\* The entry widgets update_calc_fields builds for a choice.
FieldsFor(choice) ==
    IF choice = "Stocks" THEN StocksFields
    ELSE IF choice = "Forex" THEN ForexFields
    ELSE FuturesFields

\* The values of the drop-down list, and texts typed into the combobox.
InstrumentTypes == {"Stocks", "Forex", "Futures"}
TypedTypes == InstrumentTypes \cup {"Options"}

SymbolTexts ==
    {<<"N","Q","1">>, <<"E","S","1">>, <<"e","s","1">>, <<"P","L","1">>,
     <<"c","L","1">>, <<"G","C","1">>, <<"P","A","1">>, <<"Z","B","1">>}
ContractsTexts == {<<"2">>, <<"0",".","5">>, <<"t","w","o">>}
CalcEntryTexts == {<<"4","0","0","0">>}
CalcExitTexts == {<<"4","0","1","0">>}
LotsTexts == {<<"1">>, EmptyText}
SharesTexts == {<<"1","0">>, <<"1","0"," ","0">>}

\* What the user has typed into the entries of the built field set when
\* Calculate Profit is pressed.
CalcForms(built) ==
    { [f \in FieldsFor(built) |->
         CASE f = "Instrument" -> sym
           [] f = "Direction (Long/Short)" -> d
           [] f = "Contracts" -> n
           [] f = "Trade Size (lots)" -> lots
           [] f = "Position Size" -> sh
           [] f = "Entry Price" -> e
           [] f = "Exit Price" -> x
           [] OTHER -> EmptyText] :
      sym \in (IF built = "Futures" THEN SymbolTexts ELSE {EmptyText}),
      d \in (IF built = "Stocks" THEN {EmptyText} ELSE DirectionTexts),
      n \in (IF built = "Futures" THEN ContractsTexts ELSE {EmptyText}),
      lots \in (IF built = "Forex" THEN LotsTexts ELSE {EmptyText}),
      sh \in (IF built = "Stocks" THEN SharesTexts ELSE {EmptyText}),
      e \in CalcEntryTexts, x \in CalcExitTexts }

\* The multipliers dictionary of calculate_profit.
multipliers ==
    {[symbol |-> <<"N","Q","1">>, value |-> 20],
     [symbol |-> <<"E","S","1">>, value |-> 50],
     [symbol |-> <<"P","L","1">>, value |-> 50],
     [symbol |-> <<"C","L","1">>, value |-> 1000],
     [symbol |-> <<"G","C","1">>, value |-> 100],
     [symbol |-> <<"P","A","1">>, value |-> 100]}

\* multipliers.get(instrument, 1)
MultiplierOf(instrument) ==
    IF \E m \in multipliers : m.symbol = instrument
    THEN (CHOOSE m \in multipliers : m.symbol = instrument).value
    ELSE 1

\* The reads a branch of calculate_profit makes, in order: the entry read
\* and whether float() is applied to it.
Reads(choice) ==
    IF choice = "Stocks"
    THEN <<[key |-> "Position Size", float |-> TRUE],
           [key |-> "Entry Price", float |-> TRUE],
           [key |-> "Exit Price", float |-> TRUE]>>
    ELSE IF choice = "Forex"
    THEN <<[key |-> "Direction (Long/Short)", float |-> FALSE],
           [key |-> "Trade Size (lots)", float |-> TRUE],
           [key |-> "Entry Price", float |-> TRUE],
           [key |-> "Exit Price", float |-> TRUE]>>
    ELSE <<[key |-> "Instrument", float |-> FALSE],
           [key |-> "Direction (Long/Short)", float |-> FALSE],
           [key |-> "Contracts", float |-> TRUE],
           [key |-> "Entry Price", float |-> TRUE],
           [key |-> "Exit Price", float |-> TRUE]>>

\* The exception the reads of a branch raise on these entries: that of the
\* first read that fails, "none" when all succeed.
ReadError(entries, reads) ==
    LET missing(i) == reads[i].key \notin DOMAIN entries
        bad == {i \in 1..Len(reads) :
                  \/ missing(i)
                  \/ reads[i].float /\ ~ParseFloat(entries[reads[i].key]).ok}
        first == CHOOSE i \in bad : \A k \in bad : i <= k
    IN  IF bad = {} THEN "none"
        ELSE IF missing(first) THEN "KeyError" ELSE "ValueError"

\* The call of calculate_pnl a branch makes once its reads have succeeded.
BranchPnl(choice, entries, commission) ==
    LET entry == ParseFloat(entries["Entry Price"]).val
        exit  == ParseFloat(entries["Exit Price"]).val
    IN  IF choice = "Stocks"
        THEN calculate_pnl(entry, exit,
                           ParseFloat(entries["Position Size"]).val,
                           long, commission, IntR(1))
        ELSE IF choice = "Forex"
        THEN calculate_pnl(entry, exit,
                           RMul(ParseFloat(entries["Trade Size (lots)"]).val,
                                IntR(100000)),
                           entries["Direction (Long/Short)"], commission,
                           Rat(1, 10000))
        ELSE calculate_pnl(entry, exit,
                           ParseFloat(entries["Contracts"]).val,
                           entries["Direction (Long/Short)"], commission,
                           IntR(MultiplierOf(Upper(entries["Instrument"]))))

\* <<ComboboxSelected>>: a value of the drop-down list was chosen.
update_calc_fields(choice) ==
    /\ instrument_type' = choice
    /\ calc_fields' = (IF choice = "Stocks" THEN "Stocks"
                       ELSE IF choice = "Forex" THEN "Forex" ELSE "Futures")
    /\ event' = Ran("update_calc_fields")
    /\ dialog' = NoDialog
    /\ UNCHANGED <<ledgerVars, settings, result_label, pnl_call>>

\* The combobox is editable: typing into it changes its text and runs no
\* handler, so the entries built before stay.
type_instrument_type(text) ==
    /\ instrument_type' = text
    /\ UNCHANGED <<ledgerVars, settings, dialog, event, calc_fields,
                   result_label, pnl_call>>

\* Calculate Profit (the button exists once update_calc_fields has run).
calculate_profit(entries) ==
    LET choice == instrument_type
        commission == settings.commission_per_contract
        exc == ReadError(entries, Reads(choice))
    IN  /\ calc_fields # "none"
        /\ event' = [op |-> "calculate_profit", exc |-> exc,
                     caught |-> exc # "none", rowid |-> 0,
                     choice |-> choice, entries |-> entries]
        /\ dialog' = NoDialog
        /\ IF exc # "none"
           THEN result_label' = [kind |-> "error", exc |-> exc]
           ELSE \E shown \in Format2(BranchPnl(choice, entries, commission)) :
                    result_label' = [kind |-> "pnl", pnl |-> shown,
                                     commission |-> commission]
        /\ UNCHANGED <<ledgerVars, settings, instrument_type, calc_fields,
                       pnl_call>>

NextCalcTab ==
    \/ \E choice \in InstrumentTypes : update_calc_fields(choice)
    \/ \E text \in TypedTypes : type_instrument_type(text)
    \/ \E entries \in CalcForms(calc_fields) : calculate_profit(entries)
    \/ \E text \in CommissionTexts : save_settings(text)

SpecCalcTab == Init /\ [][NextCalcTab]_vars

-----------------------------------------------------------------------------
(* The calculator called directly, on arguments drawn from bounded sets.   *)

Amounts == {IntR(100), IntR(110), Rat(1, 2)}
Sizes == {IntR(10), Rat(1, 2), IntR(0), IntR(-2)}
Rates == {IntR(0), Rat(35, 100), IntR(1)}
Multipliers == {IntR(1), IntR(50), Rat(1, 10000)}
Directions ==
    {<<"l","o","n","g">>, <<"L","o","n","g">>, <<"L","O","N","G">>,
     <<"l","O","n","G">>, <<"s","h","o","r","t">>, <<"S","h","o","r","t">>,
     <<"S","H","O","R","T">>, <<"b","u","y">>, EmptyText,
     <<" ","l","o","n","g">>, <<"l","o","n">>, <<"l","o","n","g","s">>}

\* The arguments of a call that has not been made yet.
PendingCalls ==
    { [called |-> FALSE, entry |-> entry, exit |-> exit, size |-> size,
       direction |-> direction, commission |-> commission,
       multiplier |-> multiplier] :
      entry \in Amounts, exit \in Amounts, size \in Sizes,
      direction \in Directions, commission \in Rates,
      multiplier \in Multipliers }

InitCalc ==
    /\ tableExists = TRUE
    /\ trades = CreateTableIfNotExists(FALSE, NoRows)
    /\ settings = DefaultSettings
    /\ history_tree = TreeRows(trades)
    /\ dialog = NoDialog
    /\ event = Ran("startup")
    /\ assigned = {}
    /\ instrument_type = ""
    /\ calc_fields = "none"
    /\ result_label = NoLabel
    /\ pnl_call \in PendingCalls

call_calculate_pnl ==
    /\ ~pnl_call.called
    /\ pnl_call' =
         [called |-> TRUE, entry |-> pnl_call.entry, exit |-> pnl_call.exit,
          size |-> pnl_call.size, direction |-> pnl_call.direction,
          commission |-> pnl_call.commission,
          multiplier |-> pnl_call.multiplier,
          result |-> calculate_pnl(pnl_call.entry, pnl_call.exit,
                                   pnl_call.size, pnl_call.direction,
                                   pnl_call.commission, pnl_call.multiplier)]
    /\ UNCHANGED <<ledgerVars, settings, dialog, event, calcTabVars>>

NextCalc == call_calculate_pnl

SpecCalc == InitCalc /\ [][NextCalc]_vars

-----------------------------------------------------------------------------
(* The statements checked.  NetPnL is the calculator as its contract words *)
(* it; the model's calculate_pnl is compared against it.                   *)

RAdd(a, b) == Rat(a.n * b.d + b.n * a.d, a.d * b.d)

LongSpellings ==
    {<<a, b, c, d>> : a \in {"l", "L"}, b \in {"o", "O"},
                      c \in {"n", "N"}, d \in {"g", "G"}}

Long == <<"L","o","n","g">>
Short == <<"S","h","o","r","t">>

NetPnL(entry, exit, size, direction, commissionRate, multiplier) ==
    LET move == IF direction \in LongSpellings
                THEN RSub(exit, entry) ELSE RSub(entry, exit)
    IN  RSub(RMul(RMul(move, size), multiplier), RMul(commissionRate, size))

Created == event.op = "save_trade" /\ event.exc = "none"

\* The integer an item id of the tree reads as.
IdOfIid(iid) == CHOOSE id \in 1..(MaxId + 1) : IntToText(id) = iid

\* C1: every row of the table stores as pnl_net the net P&L of its own
\* stored entry, exit, size, direction and commission, with multiplier 1.
C1_StoredPnlIsCalculatorOutput ==
    \A id \in DOMAIN trades :
        trades[id].pnl_net =
            NetPnL(trades[id].entry_price, trades[id].exit_price,
                   trades[id].position_size, trades[id].direction,
                   trades[id].commission, IntR(1))

\* A row saved under a rate the settings no longer hold.
C1_Witness ==
    \E id \in DOMAIN trades :
        /\ trades[id].commission # settings.commission_per_contract
        /\ trades[id].commission # DefaultSettings.commission_per_contract

\* C2: a created row stores the rate the settings hold at the call; a row
\* that exists is changed by no step, leaves the table only in delete_trade,
\* and save_settings leaves the table as it is.
C2_RowsImmutableCommissionSnapshot ==
    [][ /\ \A id \in DOMAIN trades \cap DOMAIN trades' :
               trades'[id] = trades[id]
        /\ DOMAIN trades \ DOMAIN trades' # {} => event'.op = "delete_trade"
        /\ event'.op = "save_settings" => trades' = trades
        /\ (event'.op = "save_trade" /\ event'.exc = "none") =>
               /\ DOMAIN trades' = DOMAIN trades \cup {event'.rowid}
               /\ event'.rowid \notin DOMAIN trades
               /\ trades'[event'.rowid].commission =
                      settings.commission_per_contract ]_vars

\* The rate was changed after a row was saved.
C2_Witness ==
    /\ event.op = "save_settings"
    /\ dialog.kind = "info"
    /\ \E id \in DOMAIN trades :
           trades[id].commission # settings.commission_per_contract

\* C3: load_history leaves in the tree one summary per row of the table, in
\* strictly decreasing id order; run right after a create, its first row is
\* the created row.
C3_ListNewestFirst ==
    [][ event'.op = "load_history" =>
          /\ Len(history_tree') = Cardinality(DOMAIN trades')
          /\ \A k \in 1..Len(history_tree') :
                 LET id == IdOfIid(history_tree'[k].iid)
                 IN  /\ id \in DOMAIN trades'
                     /\ history_tree'[k].values =
                            <<trades'[id].date, trades'[id].instrument,
                              trades'[id].pnl_net, trades'[id].commission>>
                     /\ k > 1 => IdOfIid(history_tree'[k - 1].iid) > id
          /\ Created =>
                 /\ event.rowid \in DOMAIN trades'
                 /\ history_tree'[1].iid = IntToText(event.rowid) ]_vars

\* A list of two rows whose first is a row created after a delete.
C3_Witness ==
    /\ event.op = "load_history"
    /\ Len(history_tree) = 2
    /\ history_tree[1].iid = <<"3">>
    /\ Cardinality(assigned) = 3

C5_DeleteRemovesOnlyThatRow ==
    [][ event'.op = "delete_trade" =>
          /\ settings' = settings
          /\ IF event'.selected = <<>>
             THEN trades' = trades /\ history_tree' = history_tree
             ELSE LET id == IdOfIid(event'.selected[1])
                  IN  /\ DOMAIN trades' = DOMAIN trades \ {id}
                      /\ \A other \in DOMAIN trades' :
                             trades'[other] = trades[other]
                      /\ \A k \in 1..Len(history_tree') :
                             history_tree'[k].iid # event'.selected[1]
                      /\ Len(history_tree') = Cardinality(DOMAIN trades')
       ]_vars

\* Two rows were selected and one row is left.
C5_Witness ==
    /\ event.op = "delete_trade"
    /\ Len(event.selected) = 2
    /\ Cardinality(DOMAIN trades) = 1

\* C6: calculate_pnl returns (exit - entry) * size * multiplier -
\* commission * size for a direction spelling "long" in any letter case and
\* (entry - exit) * size * multiplier - commission * size for every other
\* direction, unrounded.
C6_CalculatePnlFormula ==
    pnl_call.called =>
        pnl_call.result =
            IF pnl_call.direction \in LongSpellings
            THEN RSub(RMul(RMul(RSub(pnl_call.exit, pnl_call.entry),
                                pnl_call.size), pnl_call.multiplier),
                      RMul(pnl_call.commission, pnl_call.size))
            ELSE RSub(RMul(RMul(RSub(pnl_call.entry, pnl_call.exit),
                                pnl_call.size), pnl_call.multiplier),
                      RMul(pnl_call.commission, pnl_call.size))

\* A call with "long" in mixed case whose result is not a multiple of 1/100.
C6_Witness ==
    /\ pnl_call.called
    /\ pnl_call.direction = <<"l","O","n","G">>
    /\ pnl_call.entry # pnl_call.exit
    /\ 100 % pnl_call.result.d # 0

\* C7: the result for Long equals the result for Short with entry and exit
\* exchanged, and the results for Long and for Short on the same arguments
\* add up to -2 * commission * size.
C7_LongShortMirror ==
    pnl_call.called =>
        LET other == IF pnl_call.direction = Long THEN Short ELSE Long
            swapped == calculate_pnl(pnl_call.exit, pnl_call.entry,
                                     pnl_call.size, other,
                                     pnl_call.commission, pnl_call.multiplier)
            same == calculate_pnl(pnl_call.entry, pnl_call.exit,
                                  pnl_call.size, other,
                                  pnl_call.commission, pnl_call.multiplier)
        IN  pnl_call.direction \in {Long, Short} =>
                /\ pnl_call.result = swapped
                /\ RAdd(pnl_call.result, same) =
                       RMul(IntR(-2),
                            RMul(pnl_call.commission, pnl_call.size))

\* A Long call with a price move, a size and a commission.
C7_Witness ==
    /\ pnl_call.called
    /\ pnl_call.direction = Long
    /\ pnl_call.entry # pnl_call.exit
    /\ pnl_call.commission.n # 0
    /\ pnl_call.size.n # 0

\* C8 as stated: an entry, exit or size that is no number makes save_trade
\* fail with an error message shown to the user and the table unchanged; a
\* commission that is no number makes save_settings show an error message
\* and keep the rate.
C8_InvalidInputReportedStateKept ==
    [][ /\ (event'.op = "save_trade" /\ event'.exc = "ValueError") =>
               /\ trades' = trades
               /\ dialog'.kind = "error"
        /\ (event'.op = "save_settings" /\ event'.exc = "ValueError") =>
               /\ settings' = settings
               /\ dialog'.kind = "error" ]_vars

\* C9: running the start-up code again leaves every row of the table as it
\* was and raises nothing.
C9_InitIdempotent ==
    [][ event'.op = "startup" =>
            /\ tableExists'
            /\ trades' = trades
            /\ event'.exc = "none" ]_vars

\* A restart over a table that holds a row and has lost one to a delete.
C9_Witness ==
    /\ event.op = "startup"
    /\ DOMAIN trades # {}
    /\ Cardinality(assigned) > Cardinality(DOMAIN trades)

\* The multiplier table of C10, keyed by the symbol in any letter case.
ClaimedMultiplier(symbol) ==
    LET sym == Lower(symbol)
    IN  CASE sym = <<"n","q","1">> -> 20
          [] sym = <<"e","s","1">> -> 50
          [] sym = <<"p","l","1">> -> 50
          [] sym = <<"c","l","1">> -> 1000
          [] sym = <<"g","c","1">> -> 100
          [] sym = <<"p","a","1">> -> 100
          [] OTHER -> 1

\* calculate_profit took the Futures branch on Futures entries that parse.
FuturesCalculated ==
    /\ event.op = "calculate_profit"
    /\ event.choice \notin {"Stocks", "Forex"}
    /\ DOMAIN event.entries = FuturesFields
    /\ ParseFloat(event.entries["Contracts"]).ok
    /\ ParseFloat(event.entries["Entry Price"]).ok
    /\ ParseFloat(event.entries["Exit Price"]).ok

FuturesNetPnL ==
    NetPnL(ParseFloat(event.entries["Entry Price"]).val,
           ParseFloat(event.entries["Exit Price"]).val,
           ParseFloat(event.entries["Contracts"]).val,
           event.entries["Direction (Long/Short)"],
           settings.commission_per_contract,
           IntR(ClaimedMultiplier(event.entries["Instrument"])))

\* C10 as stated: the Futures branch displays netPnL(entry, exit, contracts,
\* direction, current rate, multiplier of the uppercased symbol or 1).
C10_FuturesDisplaysNetPnL ==
    FuturesCalculated =>
        /\ result_label.kind = "pnl"
        /\ result_label.pnl = FuturesNetPnL

\* C10 amended: the Futures branch displays that netPnL to two decimals: a
\* multiple of 1/100 at most 1/200 away from it.
C10_FuturesDisplaysNetPnLTo2Decimals ==
    FuturesCalculated =>
        /\ result_label.kind = "pnl"
        /\ result_label.commission = settings.commission_per_contract
        /\ 100 % result_label.pnl.d = 0
        /\ LET off == RSub(result_label.pnl, FuturesNetPnL)
           IN  200 * Abs(off.n) <= off.d

\* es1 in lower case, 4000 to 4010, 2 contracts, Long, rate 1: 998.
C10_Witness ==
    /\ FuturesCalculated
    /\ event.entries["Instrument"] = <<"e","s","1">>
    /\ event.entries["Direction (Long/Short)"] = Long
    /\ settings.commission_per_contract = IntR(1)
    /\ result_label.kind = "pnl"
    /\ result_label.pnl = IntR(998)

=============================================================================
